---- MODULE Spec2Model ----
(***************************************************************************)
(* A model of dr-measure (src/src/main.rs): the DR algorithm               *)
(* (compute_block_stats, dr_for_channel), the per-file pipeline            *)
(* (process_flac), the report (write_report) and the driver (main).        *)
(*                                                                         *)
(* Floating point.  A normalized sample s / scale is held as the raw       *)
(* integer s, i.e. in units of 1/scale.  A square root sqrt(n/d) is held   *)
(* as the pair <<n, d>> of what is under the root, reduced to lowest       *)
(* terms; <<0, 0>> is 0.0/0.0 = NaN.  20*log10(x) is not computable here:  *)
(* dr_for_channel returns which f64 it is (a constant 0.0, -inf, +inf,     *)
(* NaN, or a finite logarithm with its arguments), and where the number    *)
(* itself is needed (the rounding in process_flac) it is drawn from        *)
(* DbValues, in units of 1/DbScale dB.                                     *)
(*                                                                         *)
(* Left out, as nothing modelled reads them: the scale 2^(bits - 1) (a     *)
(* common unit of all samples of a file), duration_secs, the conversion    *)
(* to_db of the overall peak and RMS, the text of the report's header,     *)
(* rule and footer lines, and the console output that --quiet suppresses.  *)
(***************************************************************************)
EXTENDS Integers, Sequences, FiniteSets, TLC

VARIABLES
    pc,              \* position of the running function
    samples,         \* compute_block_stats: its argument
    stats,           \* compute_block_stats: its return value
    blocks,          \* dr_for_channel: its argument
    dr_out,          \* dr_for_channel: its locals and return value
    stream,          \* process_flac: what the decoder holds for the file
    ch_buffers,      \* process_flac: per-channel sample buffers
    ch_blocks,       \* process_flac: per-channel block statistics
    ch_block_frames, \* process_flac: which samples each emitted block held
    frames_read,     \* process_flac: complete frames delivered so far
    frame,           \* process_flac: the frame read by the last loop pass
    read_error,      \* process_flac: the decoder reported Some(Err(_))
    dr_values,       \* process_flac: per-channel DR as numbers
    track,           \* process_flac: its return value
    folder,          \* main: what the folder argument is on disk
    flac_files,      \* main: the collected paths
    results,         \* main: one entry per processed file
    report,          \* write_report: what was written to the file
    exit_code        \* main: the process's exit status

statsVars == <<samples, stats>>
drVars == <<blocks, dr_out>>
flacVars == <<stream, ch_buffers, ch_blocks, ch_block_frames, frames_read,
              frame, read_error, dr_values, track>>
mainVars == <<folder, flac_files, results, report, exit_code>>
vars == <<pc, statsVars, drVars, flacVars, mainVars>>

\* ------------------------------------------------------------ bounds

MaxBlockLen == 3
MaxBlocks == 3
MaxVal == 2
RampMax == 10
MaxFrames == 6
DbScale == 2
MaxFiles == 3

\* ------------------------------------------------------------ program constants

BLOCKSIZE_SECONDS == 3
NTH_HIGHEST_PEAK == 2
\* UPMOST_BLOCKS_RATIO = 0.2 = 1 / UPMOST_BLOCKS_RATIO_INV
UPMOST_BLOCKS_RATIO_INV == 5

I32_MIN == -2147483647 - 1
I32_MAX == 2147483647

\* ------------------------------------------------------------ arithmetic

Abs(x) == IF x < 0 THEN -x ELSE x
Max(a, b) == IF a >= b THEN a ELSE b
Min(a, b) == IF a <= b THEN a ELSE b

RECURSIVE GCD(_, _)
GCD(a, b) == IF b = 0 THEN a ELSE GCD(b, a % b)

\* The rational n/d (d > 0) in lowest terms; <<0, 0>> stays NaN.
Norm(q) ==
    IF q[2] = 0 THEN <<0, 0>>
    ELSE LET g == GCD(q[1], q[2]) IN <<q[1] \div g, q[2] \div g>>

NaN == <<0, 0>>
IsNaN(q) == q[2] = 0

\* f64 addition and division by a count, on rationals; NaN propagates.
FAdd(a, b) ==
    IF IsNaN(a) \/ IsNaN(b) THEN NaN
    ELSE Norm(<<a[1] * b[2] + b[1] * a[2], a[2] * b[2]>>)

\* 0.0 / 0.0 is NaN; no other division by zero arises (n = 0 only for an
\* empty slice, whose sum is 0.0).
FDivCount(a, n) ==
    IF IsNaN(a) \/ n = 0 THEN NaN ELSE Norm(<<a[1], a[2] * n>>)

\* a < b on non-NaN rationals.
FLess(a, b) == a[1] * b[2] < b[1] * a[2]

RECURSIVE FSum(_)
FSum(s) == IF s = <<>> THEN <<0, 1>> ELSE FAdd(s[1], FSum(Tail(s)))

\* Rounding to nearest with ties to even, which f64::round is not.
F64RoundTiesToEven(num, den) ==
    LET q == num \div den
        r == num % den
    IN  IF 2 * r > den THEN q + 1
        ELSE IF 2 * r < den THEN q
        ELSE IF q % 2 = 0 THEN q ELSE q + 1

\* f64::round on the rational num/den (den > 0): nearest integer, ties away
\* from zero.
F64Round(num, den) ==
    LET q == num \div den
        r == num % den
    IN  IF 2 * r > den THEN q + 1
        ELSE IF 2 * r < den THEN q
        ELSE IF num >= 0 THEN q + 1 ELSE q

\* ------------------------------------------------------------ sorting

\* slice::sort_by(|a, b| a.partial_cmp(b).unwrap()) on f64 held as integers
\* (the peaks) and on f64 held as roots (the RMS values), none of them NaN.
RECURSIVE InsertInt(_, _)
InsertInt(x, s) ==
    IF s = <<>> THEN <<x>>
    ELSE IF x < s[1] THEN <<x>> \o s
    ELSE <<s[1]>> \o InsertInt(x, Tail(s))

RECURSIVE SortInts(_)
SortInts(s) == IF s = <<>> THEN <<>> ELSE InsertInt(s[1], SortInts(Tail(s)))

RECURSIVE InsertRoot(_, _)
InsertRoot(x, s) ==
    IF s = <<>> THEN <<x>>
    ELSE IF FLess(x, s[1]) THEN <<x>> \o s
    ELSE <<s[1]>> \o InsertRoot(x, Tail(s))

RECURSIVE SortRoots(_)
SortRoots(s) == IF s = <<>> THEN <<>> ELSE InsertRoot(s[1], SortRoots(Tail(s)))

\* a.partial_cmp(b).unwrap() panics when a comparison meets a NaN; a sort of
\* two or more elements compares every element at least once.
SortPanics(s) == Len(s) >= 2 /\ \E i \in 1..Len(s) : IsNaN(s[i])

\* ------------------------------------------------------------ block_size_for_sample_rate

block_size_for_sample_rate(sample_rate) ==
    F64Round(BLOCKSIZE_SECONDS * sample_rate, 1)

\* ------------------------------------------------------------ compute_block_stats

RECURSIVE SumSq2(_)
SumSq2(s) == IF s = <<>> THEN 0 ELSE 2 * s[1] * s[1] + SumSq2(Tail(s))

\* fold(0.0, |a, x| a.max(x.abs()))
RECURSIVE PeakFold(_, _)
PeakFold(a, s) == IF s = <<>> THEN a ELSE PeakFold(Max(a, Abs(s[1])), Tail(s))

\* The function has no error path: it returns a BlockStats for every slice.
\* rms is the value under the square root.
compute_block_stats(s) ==
    [rms |-> FDivCount(<<SumSq2(s), 1>>, Len(s)), peak |-> PeakFold(0, s)]

\* ------------------------------------------------------------ dr_for_channel

RmsOf(bs) == [i \in 1..Len(bs) |-> bs[i].rms]
PeakOf(bs) == [i \in 1..Len(bs) |-> bs[i].peak]

rms_sorted(bs) == SortRoots(RmsOf(bs))
peak_sorted(bs) == SortInts(PeakOf(bs))

\* The index of the highest peak instead of the second-highest.
peak_idx_last(total) == total - 1

\* total.saturating_sub(NTH_HIGHEST_PEAK), a 0-based index
peak_idx(total) == Max(total - NTH_HIGHEST_PEAK, 0)

peak_loud(bs) == peak_sorted(bs)[peak_idx(Len(bs)) + 1]

\* ((total as f64 * UPMOST_BLOCKS_RATIO).round() as usize).max(1)
top_n(total) == Max(F64Round(total, UPMOST_BLOCKS_RATIO_INV), 1)

\* &rms_sorted[(total - top_n)..]
upmost_rms(bs) ==
    LET total == Len(bs)
        srt == rms_sorted(bs)
    IN  SubSeq(srt, total - top_n(total) + 1, total)

\* (sum of r * r / top_n).sqrt(), as the value under the root
rms_loud(bs) == FDivCount(FSum(upmost_rms(bs)), top_n(Len(bs)))

F64(kind, p, r) == [kind |-> kind, peak |-> p, rms |-> r]
Zero == F64("zero", 0, <<0, 1>>)

\* 20.0 * (peak_loud / rms_loud).log10()
Log10Db(p, r) ==
    IF IsNaN(r) THEN F64("nan", 0, <<0, 1>>)
    ELSE IF r[1] = 0 THEN
        (IF p = 0 THEN F64("nan", 0, <<0, 1>>) ELSE F64("pos_inf", 0, <<0, 1>>))
    ELSE IF p = 0 THEN F64("neg_inf", 0, <<0, 1>>)
    ELSE F64("log", p, r)

\* The guard written rms_loud < 0.0, which lets rms_loud = 0 through.
dr_for_channel_strict_guard(bs) ==
    IF bs = <<>> THEN Zero
    ELSE IF SortPanics(RmsOf(bs)) THEN F64("panic", 0, <<0, 1>>)
    ELSE LET r == rms_loud(bs)
         IN  IF ~IsNaN(r) /\ r[1] < 0 THEN Zero
             ELSE Log10Db(peak_loud(bs), r)

dr_for_channel(bs) ==
    IF bs = <<>> THEN Zero
    ELSE IF SortPanics(RmsOf(bs)) THEN F64("panic", 0, <<0, 1>>)
    ELSE LET r == rms_loud(bs)
         IN  IF ~IsNaN(r) /\ r[1] <= 0 THEN Zero
             ELSE Log10Db(peak_loud(bs), r)

\* ------------------------------------------------------------ inputs

RECURSIVE SeqsUpTo(_, _)
SeqsUpTo(S, n) ==
    IF n = 0 THEN {<<>>}
    ELSE LET shorter == SeqsUpTo(S, n - 1)
         IN  shorter \cup {Append(s, x) : s \in {t \in shorter : Len(t) = n - 1}, x \in S}

\* The f64 i (i >= 0), as a root: sqrt(i * i).
FromInt(i) == <<i * i, 1>>

\* BlockStats values with rms >= 0 and peak >= 0.
BlockStatsValues == [rms : {FromInt(i) : i \in 0..MaxVal}, peak : 0..MaxVal]

\* Blocks with RMS 1..total and peak equal to RMS; the same with the peaks
\* in the opposite order, so that the loudest RMS sits in the block of the
\* lowest peak.
Ramp(total) == [i \in 1..total |-> [rms |-> FromInt(i), peak |-> i]]
CrossRamp(total) == [i \in 1..total |-> [rms |-> FromInt(i), peak |-> total + 1 - i]]

DrInputs ==
    SeqsUpTo(BlockStatsValues, MaxBlocks)
        \cup {Ramp(n) : n \in 1..RampMax} \cup {CrossRamp(n) : n \in 1..RampMax}

IdleStats == [ret |-> "none", value |-> [rms |-> NaN, peak |-> 0]]
IdleDr == [peak_loud |-> 0, top_n |-> 0, upmost_rms |-> <<>>, dr |-> F64("none", 0, <<0, 1>>)]
IdleTrack == [kind |-> "none", message |-> "", dr |-> 0, overall_peak |-> 0,
              overall_rms |-> NaN]
IdleStream == [open_ok |-> FALSE, sample_rate |-> 0, channels |-> 0]
IdleReport == [created |-> FALSE, rows |-> <<>>, summary |-> <<>>, errors |-> <<>>,
               complete |-> FALSE]

StatsIdle == samples = <<>> /\ stats = IdleStats
DrIdle == blocks = <<>> /\ dr_out = IdleDr
FlacIdle ==
    /\ stream = IdleStream
    /\ ch_buffers = <<>>
    /\ ch_blocks = <<>>
    /\ ch_block_frames = <<>>
    /\ frames_read = 0
    /\ frame = <<>>
    /\ read_error = FALSE
    /\ dr_values = <<>>
    /\ track = IdleTrack
MainIdle ==
    /\ folder = [kind |-> "none", entries |-> <<>>]
    /\ flac_files = <<>>
    /\ results = <<>>
    /\ report = IdleReport
    /\ exit_code = -1

\* ------------------------------------------------------------ compute_block_stats, called

InitStats ==
    /\ pc = "compute_block_stats"
    /\ samples \in SeqsUpTo(-MaxVal..MaxVal, MaxBlockLen)
    /\ stats = IdleStats
    /\ DrIdle /\ FlacIdle /\ MainIdle

ComputeBlockStats ==
    /\ pc = "compute_block_stats"
    /\ stats' = [ret |-> "BlockStats", value |-> compute_block_stats(samples)]
    /\ pc' = "returned"
    /\ UNCHANGED <<samples, drVars, flacVars, mainVars>>

NextStats == ComputeBlockStats

SpecStats == InitStats /\ [][NextStats]_vars

\* ------------------------------------------------------------ dr_for_channel, called

InitDr ==
    /\ pc = "dr_for_channel"
    /\ blocks \in DrInputs
    /\ dr_out = IdleDr
    /\ StatsIdle /\ FlacIdle /\ MainIdle

\* The early return leaves the locals unset.
DrForChannel ==
    /\ pc = "dr_for_channel"
    /\ dr_out' =
         IF blocks = <<>> THEN [IdleDr EXCEPT !.dr = dr_for_channel(blocks)]
         ELSE [peak_loud |-> peak_loud(blocks),
               top_n |-> top_n(Len(blocks)),
               upmost_rms |-> upmost_rms(blocks),
               dr |-> dr_for_channel(blocks)]
    /\ pc' = "returned"
    /\ UNCHANGED <<blocks, statsVars, flacVars, mainVars>>

NextDr == DrForChannel

SpecDr == InitDr /\ [][NextDr]_vars

\* ------------------------------------------------------------ process_flac

\* Raw samples the decoder yields, and the streams' parameters.
RawSamples == {-1, 0}
SampleRates == {0, 1, 2}
ChannelCounts == {1, 2}

\* Values of 20*log10(peak_loud / rms_loud) when it is finite, in units of
\* 1/DbScale dB: around zero, and 11, 11 + 1/DbScale, 12.
DbValues == {-3, -1, 0, 1} \cup {11 * DbScale, 11 * DbScale + 1, 12 * DbScale}

Num(k, v) == [k |-> k, v |-> v]

\* The numbers an f64 of dr_for_channel can be.
NumbersOf(d) ==
    CASE d.kind = "zero" -> {Num("fin", 0)}
      [] d.kind = "nan" -> {Num("nan", 0)}
      [] d.kind = "neg_inf" -> {Num("neg_inf", 0)}
      [] d.kind = "pos_inf" -> {Num("pos_inf", 0)}
      [] OTHER -> {Num("fin", v) : v \in DbValues}

RECURSIVE SumV(_)
SumV(s) == IF s = <<>> THEN 0 ELSE s[1].v + SumV(Tail(s))

Has(s, k) == \E i \in 1..Len(s) : s[i].k = k

\* dr_values.iter().sum::<f64>() / dr_values.len() as f64, in units of
\* 1 / (DbScale * len) dB
dr_mean(vals) ==
    IF Has(vals, "nan") \/ (Has(vals, "neg_inf") /\ Has(vals, "pos_inf"))
    THEN Num("nan", 0)
    ELSE IF Has(vals, "neg_inf") THEN Num("neg_inf", 0)
    ELSE IF Has(vals, "pos_inf") THEN Num("pos_inf", 0)
    ELSE Num("fin", SumV(vals))

\* x.round() as i32: the cast saturates, and NaN casts to 0.
RoundAsI32(x, den) ==
    CASE x.k = "nan" -> 0
      [] x.k = "neg_inf" -> I32_MIN
      [] x.k = "pos_inf" -> I32_MAX
      [] OTHER -> Max(I32_MIN, Min(I32_MAX, F64Round(x.v, den)))

\* The flush without its end-of-stream clause.
FlushDueFullOnly(buf_len, block_len, eof) == buf_len >= block_len

\* buf_len >= block_len || (eof && buf_len > 0)

FlushDue(buf_len, block_len, eof) ==
    buf_len >= block_len \/ (eof /\ buf_len > 0)

take(buf_len, block_len) == IF buf_len >= block_len THEN block_len ELSE buf_len

\* A buffered sample <<frame index, channel, value>>: the value is what the
\* code holds, the first two say which sample of the stream it is.
Values(block) == [i \in 1..Len(block) |-> block[i][3]]
Tags(block) == [i \in 1..Len(block) |-> <<block[i][1], block[i][2]>>]

Channels == 1..stream.channels
block_len == block_size_for_sample_rate(stream.sample_rate)

\* What one pass of `for _ in 0..channels` gets from samples_iter.next():
\* a whole frame, or fewer samples followed by None or Some(Err(_)).
DecoderFrames ==
    {[got |-> g, stop |-> "no"] :
        g \in IF frames_read < MaxFrames THEN [Channels -> RawSamples] ELSE {}}
    \cup {[got |-> g, stop |-> s] :
            g \in UNION {[1..k -> RawSamples] : k \in 0..(stream.channels - 1)},
            s \in {"None", "Err"}}

InitFlac ==
    /\ pc = "open"
    /\ stream \in [open_ok : BOOLEAN, sample_rate : SampleRates, channels : ChannelCounts]
    /\ ch_buffers = <<>>
    /\ ch_blocks = <<>>
    /\ ch_block_frames = <<>>
    /\ frames_read = 0
    /\ frame = <<>>
    /\ read_error = FALSE
    /\ dr_values = <<>>
    /\ track = IdleTrack
    /\ StatsIdle /\ DrIdle /\ MainIdle

\* FlacReader::open(path).map_err(..)?, then the buffers are set up.
Open ==
    /\ pc = "open"
    /\ IF stream.open_ok
       THEN /\ ch_buffers' = [ch \in Channels |-> <<>>]
            /\ ch_blocks' = [ch \in Channels |-> <<>>]
            /\ ch_block_frames' = [ch \in Channels |-> <<>>]
            /\ pc' = "loop"
            /\ UNCHANGED track
       ELSE /\ track' = [IdleTrack EXCEPT !.kind = "Err", !.message = "Cannot open"]
            /\ pc' = "returned"
            /\ UNCHANGED <<ch_buffers, ch_blocks, ch_block_frames>>
    /\ UNCHANGED <<stream, frames_read, frame, read_error, dr_values,
                   statsVars, drVars, mainVars>>

\* One pass of the loop: read a frame, push it if whole, flush, break on eof.
LoopPass ==
    /\ pc = "loop"
    /\ \E d \in DecoderFrames :
         LET eof == d.stop # "no"
             whole == Len(d.got) = stream.channels
             pushed == [ch \in Channels |->
                          IF whole
                          THEN Append(ch_buffers[ch], <<frames_read, ch, d.got[ch]>>)
                          ELSE ch_buffers[ch]]
             buf_len == Len(pushed[1])
             flush == FlushDue(buf_len, block_len, eof)
             n == take(buf_len, block_len)
         IN  /\ frame' = d.got
             /\ frames_read' = IF whole THEN frames_read + 1 ELSE frames_read
             /\ read_error' = (read_error \/ d.stop = "Err")
             /\ ch_buffers' = [ch \in Channels |->
                                 IF flush
                                 THEN SubSeq(pushed[ch], n + 1, Len(pushed[ch]))
                                 ELSE pushed[ch]]
             /\ ch_blocks' = [ch \in Channels |->
                                IF flush
                                THEN Append(ch_blocks[ch],
                                            compute_block_stats(
                                                Values(SubSeq(pushed[ch], 1, n))))
                                ELSE ch_blocks[ch]]
             /\ ch_block_frames' = [ch \in Channels |->
                                      IF flush
                                      THEN Append(ch_block_frames[ch],
                                                  Tags(SubSeq(pushed[ch], 1, n)))
                                      ELSE ch_block_frames[ch]]
             /\ pc' = IF eof THEN "aggregate" ELSE "loop"
    /\ UNCHANGED <<stream, dr_values, track, statsVars, drVars, mainVars>>

RECURSIVE Flatten(_)
Flatten(ss) == IF ss = <<>> THEN <<>> ELSE ss[1] \o Flatten(Tail(ss))

all_blocks == Flatten(ch_blocks)

\* Per-channel DR, the rounded mean, the overall peak and RMS, Ok(TrackResult).
\* f64::max skips a NaN; peaks are never NaN.
Aggregate ==
    /\ pc = "aggregate"
    /\ LET drs == [ch \in Channels |-> dr_for_channel(ch_blocks[ch])]
       IN  IF \E ch \in Channels : drs[ch].kind = "panic"
           THEN /\ track' = [IdleTrack EXCEPT !.kind = "panic"]
                /\ UNCHANGED dr_values
           ELSE \E vals \in [Channels -> UNION {NumbersOf(drs[ch]) : ch \in Channels}] :
                  /\ \A ch \in Channels : vals[ch] \in NumbersOf(drs[ch])
                  /\ dr_values' = vals
                  /\ track' =
                       [kind |-> "Ok",
                        message |-> "",
                        dr |-> RoundAsI32(dr_mean(vals), DbScale * Len(vals)),
                        overall_peak |-> PeakFold(0, PeakOf(all_blocks)),
                        overall_rms |->
                            FDivCount(FSum(RmsOf(all_blocks)), Max(Len(all_blocks), 1))]
    /\ pc' = "returned"
    /\ UNCHANGED <<stream, ch_buffers, ch_blocks, ch_block_frames, frames_read,
                   frame, read_error, statsVars, drVars, mainVars>>

NextFlac == Open \/ LoopPass \/ Aggregate

SpecFlac == InitFlac /\ [][NextFlac]_vars

\* ------------------------------------------------------------ main, write_report

\* What process_flac returns for a file: Err("Cannot open: ..") or a
\* TrackResult, whose dr is any i32 that `round() as i32` can give; a channel
\* DR of -inf gives I32_MIN.
TrackDrs == {I32_MIN, -1, 6, 9, 14}
ProcessFlacResults ==
    {[kind |-> "Err", dr |-> 0, message |-> "Cannot open"]}
        \cup {[kind |-> "Ok", dr |-> d, message |-> ""] : d \in TrackDrs}

FileNames == 1..MaxFiles

\* Directory listings: entries with distinct names in any order; flac says
\* the entry is a file whose extension is "flac".
RECURSIVE Listings(_)
Listings(n) ==
    IF n = 0 THEN {<<>>}
    ELSE LET shorter == Listings(n - 1)
         IN  shorter \cup
             {Append(s, [name |-> f, flac |-> b]) :
                 s \in {t \in shorter : Len(t) = n - 1},
                 f \in FileNames, b \in BOOLEAN}

DistinctNames(s) == \A i, j \in 1..Len(s) : i # j => s[i].name # s[j].name

Folders ==
    {[kind |-> k, entries |-> <<>>] : k \in {"missing", "not_dir", "unreadable"}}
        \cup {[kind |-> "dir", entries |-> s] :
                s \in {t \in Listings(MaxFiles) : DistinctNames(t)}}

RECURSIVE FlacNames(_)
FlacNames(es) ==
    IF es = <<>> THEN <<>>
    ELSE (IF es[1].flac THEN <<es[1].name>> ELSE <<>>) \o FlacNames(Tail(es))

\* The collected paths left in the order of the listing.
collect_unsorted(es) == FlacNames(es)

\* read_dir(..).filter_map(..).map(..).filter(..).collect(), then sort()
collect_flac_files(es) == SortInts(FlacNames(es))

\* i32 addition: the wrapped result, and whether it overflowed.
AddOverflows(a, b) ==
    \/ (b > 0 /\ a > I32_MAX - b)
    \/ (b < 0 /\ a < I32_MIN - b)

WrappingAdd(a, b) ==
    IF b > 0 /\ a > I32_MAX - b THEN ((a - I32_MAX) - 1) + ((b - I32_MAX) - 1)
    ELSE IF b < 0 /\ a < I32_MIN - b THEN (a - I32_MIN) + (b - I32_MIN)
    ELSE a + b

\* iter().sum::<i32>(): a left fold from 0
RECURSIVE SumI32(_, _)
SumI32(acc, s) ==
    IF s = <<>> THEN [sum |-> acc, overflowed |-> FALSE]
    ELSE LET rest == SumI32(WrappingAdd(acc, s[1]), Tail(s))
         IN  [sum |-> rest.sum,
              overflowed |-> AddOverflows(acc, s[1]) \/ rest.overflowed]

RECURSIVE MinOf(_)
MinOf(s) == IF Len(s) = 1 THEN s[1] ELSE Min(s[1], MinOf(Tail(s)))

RECURSIVE MaxOf(_)
MaxOf(s) == IF Len(s) = 1 THEN s[1] ELSE Max(s[1], MaxOf(Tail(s)))

\* match dr_album { dr if dr >= 14 => .., .. }: the first arm that matches
rating(dr_album) ==
    IF dr_album >= 14 THEN "Excellent"
    ELSE IF dr_album >= 10 THEN "Good"
    ELSE IF dr_album >= 8 THEN "Acceptable"
    ELSE IF dr_album >= 6 THEN "Compressed"
    ELSE "Heavily brick-walled / clipped"

\* The loop over results: the table rows, the DR values, the errors.
RECURSIVE table_rows(_)
table_rows(rs) ==
    IF rs = <<>> THEN <<>>
    ELSE (IF rs[1].kind = "Ok"
          THEN <<[filename |-> rs[1].filename, dr |-> rs[1].dr]>>
          ELSE <<>>) \o table_rows(Tail(rs))

RECURSIVE error_entries(_)
error_entries(rs) ==
    IF rs = <<>> THEN <<>>
    ELSE (IF rs[1].kind = "Err"
          THEN <<[filename |-> rs[1].filename, message |-> rs[1].message]>>
          ELSE <<>>) \o error_entries(Tail(rs))

DrsOf(rows) == [i \in 1..Len(rows) |-> rows[i].dr]

summary_of(drs) ==
    LET dr_album == Max(I32_MIN, Min(I32_MAX, F64Round(SumI32(0, drs).sum, Len(drs))))
    IN  [tracks |-> Len(drs),
         dr_album |-> dr_album,
         dr_min |-> MinOf(drs),
         dr_max |-> MaxOf(drs),
         ratings |-> <<rating(dr_album)>>]

\* The sections of the report in the order they are written; the summary
\* and the errors are written only when there is something in them.
Stages(rs) ==
    <<"create", "header">>
        \o (IF table_rows(rs) # <<>> THEN <<"rows">> ELSE <<>>)
        \o <<"rule">>
        \o (IF table_rows(rs) # <<>> THEN <<"summary">> ELSE <<>>)
        \o (IF error_entries(rs) # <<>> THEN <<"errors">> ELSE <<>>)
        \o <<"footer">>

IndexOf(stages, st) == CHOOSE i \in 1..Len(stages) : stages[i] = st

\* The report as written when writing stops before section `stop` ("done":
\* nothing stops it).  A write that fails inside a section is taken to
\* leave none of it.
report_written(rs, stop) ==
    LET stages == Stages(rs)
        last == IF stop = "done" THEN Len(stages) ELSE IndexOf(stages, stop) - 1
        reached(st) == \E i \in 1..last : stages[i] = st
        rows == table_rows(rs)
    IN  [created |-> reached("create"),
         rows |-> IF reached("rows") THEN rows ELSE <<>>,
         summary |-> IF reached("summary") THEN <<summary_of(DrsOf(rows))>> ELSE <<>>,
         errors |-> IF reached("errors") THEN <<error_entries(rs)>> ELSE <<>>,
         complete |-> stop = "done"]

InitMain ==
    /\ pc = "main"
    /\ folder \in Folders
    /\ flac_files = <<>>
    /\ results = <<>>
    /\ report = IdleReport
    /\ exit_code = -1
    /\ StatsIdle /\ DrIdle /\ FlacIdle

\* !folder.exists() || !folder.is_dir() => exit(1)
CheckFolder ==
    /\ pc = "main"
    /\ IF folder.kind \in {"missing", "not_dir"}
       THEN pc' = "exit" /\ exit_code' = 1
       ELSE pc' = "read_dir" /\ UNCHANGED exit_code
    /\ UNCHANGED <<folder, flac_files, results, report, statsVars, drVars, flacVars>>

\* fs::read_dir(folder).expect(..): a panic ends the process with status 101.
\* No FLAC file: exit(0).
ReadDir ==
    /\ pc = "read_dir"
    /\ IF folder.kind = "unreadable"
       THEN pc' = "exit" /\ exit_code' = 101 /\ UNCHANGED flac_files
       ELSE /\ flac_files' = collect_flac_files(folder.entries)
            /\ IF flac_files' = <<>>
               THEN pc' = "exit" /\ exit_code' = 0
               ELSE pc' = "process" /\ UNCHANGED exit_code
    /\ UNCHANGED <<folder, results, report, statsVars, drVars, flacVars>>

\* One pass of `for (i, path) in flac_files.iter().enumerate()`.
ProcessFile ==
    /\ pc = "process"
    /\ \E r \in ProcessFlacResults :
         results' = Append(results,
                           [kind |-> r.kind,
                            filename |-> flac_files[Len(results) + 1],
                            dr |-> r.dr,
                            message |-> r.message])
    /\ pc' = IF Len(results') = Len(flac_files) THEN "write_report" ELSE "process"
    /\ UNCHANGED <<folder, flac_files, report, exit_code, statsVars, drVars, flacVars>>

\* write_report and the match on its result.  Any File::create or writeln!
\* can fail (exit(1)); the i32 sum panics on overflow in a build with
\* overflow checks (status 101) and wraps in one without.
WriteReport ==
    /\ pc = "write_report"
    /\ LET stages == Stages(results)
           drs == DrsOf(table_rows(results))
           overflowed == drs # <<>> /\ SumI32(0, drs).overflowed
       IN  \E io_fails_at \in {"none"} \cup {stages[i] : i \in 1..Len(stages)},
              overflow_checks \in BOOLEAN :
             LET sum_panics ==
                     /\ overflowed
                     /\ overflow_checks
                     /\ (io_fails_at = "none"
                         \/ IndexOf(stages, "summary") <= IndexOf(stages, io_fails_at))
             IN  IF sum_panics
                 THEN /\ report' = report_written(results, "summary")
                      /\ exit_code' = 101
                 ELSE IF io_fails_at # "none"
                 THEN /\ report' = report_written(results, io_fails_at)
                      /\ exit_code' = 1
                 ELSE /\ report' = report_written(results, "done")
                      /\ exit_code' = 0
    /\ pc' = "exit"
    /\ UNCHANGED <<folder, flac_files, results, statsVars, drVars, flacVars>>

NextMain == CheckFolder \/ ReadDir \/ ProcessFile \/ WriteReport

SpecMain == InitMain /\ [][NextMain]_vars

\* ------------------------------------------------------------ properties

Count(s, P(_)) == Cardinality({i \in 1..Len(s) : P(s[i])})

\* r is a nearest integer to num/den (den > 0).
IsNearest(r, num, den) == 2 * Abs(r * den - num) <= den

\* r is the nearest integer to num/den, the one away from zero on a tie.
IsNearestTiesAway(r, num, den) ==
    /\ IsNearest(r, num, den)
    /\ 2 * Abs(r * den - num) = den => Abs(r * den) > Abs(num)

\* C1: when the decoder fails to open the file or reports a read error at
\* any position of the stream, process_flac returns a failure and never a
\* TrackResult.
C1_DecoderFailureYieldsFailure ==
    (pc = "returned" /\ (~stream.open_ok \/ read_error)) => track.kind = "Err"

\* C7: with sample_rate > 0, when the loop of process_flac ends after N
\* complete frames every channel has exactly ceil(N / block_len) blocks, the
\* k-th block holds exactly that channel's samples of frames
\* k*block_len .. min((k+1)*block_len, N) - 1 in order (so no block is empty,
\* all but the last are full, a ragged frame is in none), one BlockStats was
\* pushed per block, and every buffer is empty.
C7_BlocksPartitionStream ==
    (pc \in {"aggregate", "returned"} /\ stream.open_ok /\ stream.sample_rate > 0) =>
        LET N == frames_read
            L == block_len
            nb == (N + L - 1) \div L
        IN  /\ L >= 1
            /\ \A ch \in Channels :
                 /\ Len(ch_block_frames[ch]) = nb
                 /\ Len(ch_blocks[ch]) = nb
                 /\ ch_buffers[ch] = <<>>
                 /\ \A k \in 1..nb :
                      ch_block_frames[ch][k] =
                          [i \in 1..(Min(k * L, N) - (k - 1) * L) |->
                              <<(k - 1) * L + i - 1, ch>>]

C7_Witness ==
    /\ pc = "aggregate"
    /\ stream.sample_rate = 1
    /\ stream.channels = 2
    /\ frames_read = 5
    /\ Len(frame) = 1
    /\ Len(ch_block_frames[2]) = 2
    /\ Len(ch_block_frames[2][2]) = 2

\* C8: when sample_rate is 0 the analysis rejects the file or treats all
\* samples as one block: no empty block is emitted, no buffered sample is
\* lost when the loop ends, and nothing panics.
C8_ZeroSampleRateGuarded ==
    (pc \in {"loop", "aggregate", "returned"} /\ stream.open_ok /\ stream.sample_rate = 0) =>
        \/ track.kind = "Err"
        \/ /\ track.kind # "panic"
           /\ \A ch \in Channels :
                /\ \A k \in 1..Len(ch_block_frames[ch]) : ch_block_frames[ch][k] # <<>>
                /\ pc # "loop" => ch_buffers[ch] = <<>>

\* C6: when process_flac returns a TrackResult and the mean of the
\* per-channel DR values is a number, the track DR is that mean rounded to
\* the nearest i32, a tie going away from zero (11.5 gives 12; an infinite
\* mean gives the i32 nearest to it); the formula reads nothing but the
\* channel DR values.
C6_TrackDrIsRoundedMean ==
    (pc = "returned" /\ track.kind = "Ok" /\ ~Has(dr_values, "nan")
        /\ ~(Has(dr_values, "neg_inf") /\ Has(dr_values, "pos_inf"))) =>
        /\ Len(dr_values) = stream.channels
        /\ IF Has(dr_values, "neg_inf") THEN track.dr = I32_MIN
           ELSE IF Has(dr_values, "pos_inf") THEN track.dr = I32_MAX
           ELSE IsNearestTiesAway(track.dr, SumV(dr_values), DbScale * Len(dr_values))

C6_Witness ==
    /\ pc = "returned"
    /\ track.kind = "Ok"
    /\ stream.channels = 2
    /\ dr_values = <<Num("fin", 11 * DbScale), Num("fin", 12 * DbScale)>>
    /\ track.dr = 12

\* C10: compute_block_stats on an empty block fails with InvalidArgument and
\* returns no BlockStats; on a non-empty block it returns a BlockStats with
\* rms >= 0, peak >= 0 and peak the largest absolute sample value.
C10_EmptyBlockIsInvalidArgument ==
    (pc = "returned" /\ stats.ret # "none") =>
        IF samples = <<>> THEN stats.ret = "InvalidArgument"
        ELSE /\ stats.ret = "BlockStats"
             /\ ~IsNaN(stats.value.rms) /\ stats.value.rms[1] >= 0
             /\ stats.value.peak >= 0
             /\ \E i \in 1..Len(samples) : stats.value.peak = Abs(samples[i])
             /\ \A i \in 1..Len(samples) : stats.value.peak >= Abs(samples[i])

\* C5: for total >= 1 blocks, peak_loud is the second-highest peak (the only
\* one when total = 1), whatever block it comes from; top_n is
\* max(1, round(total / 5)) and 1 <= top_n <= total; the RMS values used are
\* exactly the top_n largest, in ascending order, whatever their blocks'
\* peaks; for RMS = peak = 1..10: peak_loud = 9, top_n = 2, RMS used = {9, 10}.
C5_PeakLoudAndTopN ==
    (pc = "returned" /\ blocks # <<>> /\ dr_out.dr.kind # "none") =>
        LET total == Len(blocks)
            u == dr_out.upmost_rms
            PeakAbove(v) == Cardinality({i \in 1..total : blocks[i].peak > v})
            PeakAtLeast(v) == Cardinality({i \in 1..total : blocks[i].peak >= v})
            InAll(q) == Cardinality({i \in 1..total : blocks[i].rms = q})
            InUsed(q) == Cardinality({i \in 1..Len(u) : u[i] = q})
        IN  /\ \E i \in 1..total : blocks[i].peak = dr_out.peak_loud
            /\ PeakAbove(dr_out.peak_loud) <= 1
            /\ PeakAtLeast(dr_out.peak_loud) >= Min(2, total)
            /\ 1 <= dr_out.top_n /\ dr_out.top_n <= total
            /\ IF 2 * total < UPMOST_BLOCKS_RATIO_INV THEN dr_out.top_n = 1
               ELSE IsNearest(dr_out.top_n, total, UPMOST_BLOCKS_RATIO_INV)
            /\ Len(u) = dr_out.top_n
            /\ \A i \in 1..(Len(u) - 1) : ~FLess(u[i + 1], u[i])
            /\ \A i \in 1..Len(u) : InUsed(u[i]) <= InAll(u[i])
            /\ \A i \in 1..total :
                 FLess(u[1], blocks[i].rms) => InUsed(blocks[i].rms) = InAll(blocks[i].rms)
            /\ (total = 10 /\ \A i \in 1..total : blocks[i].rms = FromInt(i)) =>
                 /\ dr_out.top_n = 2
                 /\ u = <<FromInt(9), FromInt(10)>>
            /\ (total = 10 /\ \A i \in 1..total : blocks[i].peak = i) =>
                 dr_out.peak_loud = 9

C5_Witness ==
    /\ pc = "returned"
    /\ blocks = CrossRamp(10)
    /\ dr_out.peak_loud = 9
    /\ dr_out.top_n = 2
    /\ dr_out.upmost_rms = <<FromInt(9), FromInt(10)>>
    /\ dr_out.dr = F64("log", 9, <<181, 2>>)

\* C9: dr_for_channel returns exactly 0.0 (not NaN, not an infinity, no
\* panic) for zero blocks, and whenever every RMS value among the top_n
\* largest is 0, whatever the peaks are.
C9_DegenerateIsZero ==
    (pc = "returned" /\ dr_out.dr.kind # "none") =>
        LET total == Len(blocks)
            Louder(i) == Cardinality({j \in 1..total : FLess(blocks[i].rms, blocks[j].rms)})
            \* block i is among the top_n largest unless top_n others are louder
            TopAllZero ==
                \A i \in 1..total :
                    Louder(i) < Max(1, (2 * total + UPMOST_BLOCKS_RATIO_INV)
                                        \div (2 * UPMOST_BLOCKS_RATIO_INV))
                        => blocks[i].rms[1] = 0
        IN  (total = 0 \/ TopAllZero) => dr_out.dr = Zero

C9_Witness ==
    /\ pc = "returned"
    /\ Len(blocks) = 2
    /\ \A i \in 1..2 : blocks[i].rms = FromInt(0) /\ blocks[i].peak = MaxVal
    /\ dr_out.dr = Zero

RECURSIVE SumHi(_)
SumHi(s) == IF s = <<>> THEN 0 ELSE (s[1] \div 65536) + SumHi(Tail(s))

RECURSIVE SumLo(_)
SumLo(s) == IF s = <<>> THEN 0 ELSE (s[1] % 65536) + SumLo(Tail(s))

\* a is a nearest integer to the mean of the i32 values s.  The sum is kept
\* as high and low halves, so that it is exact for any i32 values.
MeanIsNearest(a, s) ==
    LET n == Len(s)
        dh == SumHi(s) - n * (a \div 65536)
        dl == SumLo(s) - n * (a % 65536)
    IN  Abs(dh) <= n /\ 2 * Abs(dh * 65536 + dl) <= n

C3_AlbumDrIsRoundedMean ==
    LET drs == DrsOf(table_rows(results))
    IN  (pc = "exit" /\ drs # <<>> /\ exit_code # 1) =>
            /\ report.summary # <<>>
            /\ LET s == report.summary[1]
               IN  /\ MeanIsNearest(s.dr_album, drs)
                   /\ \E i \in 1..Len(drs) : s.dr_min = drs[i]
                   /\ \E i \in 1..Len(drs) : s.dr_max = drs[i]
                   /\ \A i \in 1..Len(drs) : s.dr_min <= drs[i] /\ drs[i] <= s.dr_max
                   /\ Len(s.ratings) = 1
                   /\ s.ratings[1] =
                        CASE s.dr_album >= 14 -> "Excellent"
                          [] s.dr_album \in 10..13 -> "Good"
                          [] s.dr_album \in 8..9 -> "Acceptable"
                          [] s.dr_album \in 6..7 -> "Compressed"
                          [] OTHER -> "Heavily brick-walled / clipped"

\* C4: every run ends with exit code 0 or 1: 1 when the folder is missing or
\* not a directory or when writing the report fails, 0 otherwise (no FLAC
\* file found, and then no report; files failing to decode); no failure of
\* the environment, such as an unreadable listing, ends it any other way.
C4_ExitCodeZeroOrOne ==
    pc = "exit" =>
        /\ exit_code \in {0, 1}
        /\ exit_code = 1 <=>
             \/ folder.kind \in {"missing", "not_dir"}
             \/ (flac_files # <<>> /\ ~report.complete)
        /\ flac_files = <<>> => report = IdleReport

====
